---- MODULE Spec2Model ----
(***************************************************************************)
(* Model of src/main.go: the Order entity, the RestaurantOrderProcessor    *)
(* (two buffered channels, a WaitGroup, one goroutine per ProcessOrder     *)
(* call racing a timer against the inbound send) and the interactive       *)
(* session of main.                                                        *)
(*                                                                         *)
(* Text is a sequence of one-character strings, so that formatting,        *)
(* parsing, trimming and base64 are computed rather than assumed.          *)
(* Money (float64 in the source) is an integer number of hundredths:       *)
(* 25000 is 2500000.  Every amount the model handles has at most two       *)
(* fraction digits and is far below 2^53, where float64 is exact.          *)
(*                                                                         *)
(* time.After(p.timeout) is a timer the worker goroutine starts on         *)
(* entering the select.  Go gives no real-time bound on how long a         *)
(* goroutine may be delayed between starting the timer and polling the     *)
(* select, so both cases can be ready and the timeout case is always a     *)
(* possible outcome of the select.                                         *)
(***************************************************************************)
EXTENDS Integers, Sequences, FiniteSets, TLC

(***************************************************************************)
(* Bounds of the model.                                                    *)
(***************************************************************************)
\* concurrent submissions issued by the client of SpecProc
NumOrders == 2
\* items the session may add before it must stop selecting
MaxItems == 2

(***************************************************************************)
(* Text.                                                                   *)
(***************************************************************************)
Range(s) == {s[i] : i \in DOMAIN s}

\* printable ASCII, code 32 at index 1 (codes 34, 92 and 96 are named: no text
\* of the program holds them)
Ascii ==
  <<" ", "!", "dquote", "#", "$", "%", "&", "'", "(", ")", "*", "+", ",", "-", ".", "/",
    "0", "1", "2", "3", "4", "5", "6", "7", "8", "9", ":", ";", "<", "=", ">", "?",
    "@", "A", "B", "C", "D", "E", "F", "G", "H", "I", "J", "K", "L", "M", "N", "O",
    "P", "Q", "R", "S", "T", "U", "V", "W", "X", "Y", "Z", "[", "backslash", "]", "^", "_",
    "backtick", "a", "b", "c", "d", "e", "f", "g", "h", "i", "j", "k", "l", "m", "n", "o",
    "p", "q", "r", "s", "t", "u", "v", "w", "x", "y", "z", "{", "|", "}", "~">>

ByteCode == [c \in Range(Ascii) |-> 31 + (CHOOSE i \in DOMAIN Ascii : Ascii[i] = c)]
\* []byte(s): the byte value of a character
ByteOf(c) == ByteCode[c]

DigitChars == <<"0", "1", "2", "3", "4", "5", "6", "7", "8", "9">>
IsDigit(c) == \E i \in DOMAIN DigitChars : DigitChars[i] = c
DigitVal(c) == (CHOOSE i \in DOMAIN DigitChars : DigitChars[i] = c) - 1

IsUpper(c) == ByteOf(c) >= 65 /\ ByteOf(c) <= 90
IsLower(c) == ByteOf(c) >= 97 /\ ByteOf(c) <= 122
IsLetter(c) == IsUpper(c) \/ IsLower(c)
\* \s of Go's regexp (RE2) among printable ASCII: the space; unicode.IsSpace likewise
IsSpace(c) == c = " "

LowerChar(c) == IF IsUpper(c) THEN Ascii[ByteOf(c) + 32 - 31] ELSE c
UpperChar(c) == IF IsLower(c) THEN Ascii[ByteOf(c) - 32 - 31] ELSE c

\* strings.ToLower
ToLower(s) == [i \in DOMAIN s |-> LowerChar(s[i])]

RECURSIVE TrimLeft(_)
TrimLeft(s) == IF s # <<>> /\ IsSpace(Head(s)) THEN TrimLeft(Tail(s)) ELSE s
RECURSIVE TrimRight(_)
TrimRight(s) ==
  IF s # <<>> /\ IsSpace(s[Len(s)]) THEN TrimRight(SubSeq(s, 1, Len(s) - 1)) ELSE s
\* strings.TrimSpace
TrimSpace(s) == TrimRight(TrimLeft(s))

\* strings.Title: the first letter of every word in upper case
Title(s) ==
  [i \in DOMAIN s |->
     IF i = 1 \/ ~IsLetter(s[i - 1]) THEN UpperChar(s[i]) ELSE s[i]]

RECURSIVE Digits(_)
Digits(n) ==
  IF n < 10 THEN <<DigitChars[n + 1]>>
  ELSE Digits(n \div 10) \o <<DigitChars[(n % 10) + 1]>>

\* fmt.Sprintf("%.2f", v) of an amount v held in hundredths
Fmt2(v) ==
  LET a == IF v < 0 THEN 0 - v ELSE v
  IN  (IF v < 0 THEN <<"-">> ELSE <<>>)
      \o Digits(a \div 100) \o <<".">>
      \o <<DigitChars[((a % 100) \div 10) + 1], DigitChars[(a % 10) + 1]>>

(***************************************************************************)
(* base64.StdEncoding.                                                     *)
(***************************************************************************)
B64Alphabet ==
  <<"A", "B", "C", "D", "E", "F", "G", "H", "I", "J", "K", "L", "M", "N", "O", "P",
    "Q", "R", "S", "T", "U", "V", "W", "X", "Y", "Z", "a", "b", "c", "d", "e", "f",
    "g", "h", "i", "j", "k", "l", "m", "n", "o", "p", "q", "r", "s", "t", "u", "v",
    "w", "x", "y", "z", "0", "1", "2", "3", "4", "5", "6", "7", "8", "9", "+", "/">>

B64Char(n) == B64Alphabet[n + 1]

\* Encoding.Encode: three bytes to four characters from index i on, the
\* last group padded with "="
RECURSIVE EncodeFrom(_, _)
EncodeFrom(b, i) ==
  IF i > Len(b) THEN <<>>
  ELSE IF i = Len(b) THEN
    <<B64Char(b[i] \div 4), B64Char((b[i] % 4) * 16), "=", "=">>
  ELSE IF i + 1 = Len(b) THEN
    <<B64Char(b[i] \div 4), B64Char((b[i] % 4) * 16 + b[i + 1] \div 16),
      B64Char((b[i + 1] % 16) * 4), "=">>
  ELSE
    <<B64Char(b[i] \div 4), B64Char((b[i] % 4) * 16 + b[i + 1] \div 16),
      B64Char((b[i + 1] % 16) * 4 + b[i + 2] \div 64), B64Char(b[i + 2] % 64)>>
    \o EncodeFrom(b, i + 3)

\* base64.StdEncoding.EncodeToString([]byte(s))
EncodeToString(s) ==
  CHOOSE e \in {EncodeFrom(b, 1) : b \in {[i \in DOMAIN s |-> ByteOf(s[i])]}} : TRUE

(***************************************************************************)
(* Program constants.                                                      *)
(***************************************************************************)
\* make(chan *Order, 10): the inbound channel p.orders
OrdersCap == 10
\* make(chan *Order, 10): the outbound channel p.results
ResultsCap == 10

\* the nil *Order a receive from a closed, drained channel yields
Nil == 0
\* orders are pointers: an order is named by its identity 1, 2, ...
Orders == 1 .. (OrdersCap + NumOrders)
\* the one order main builds
SessionOrder == 1

NasiGoreng == <<"n", "a", "s", "i", " ", "g", "o", "r", "e", "n", "g">>
AyamBakar == <<"a", "y", "a", "m", " ", "b", "a", "k", "a", "r">>
Selesai == <<"s", "e", "l", "e", "s", "a", "i">>

\* mutant: a menu on which the scenario comes to 85000
menuListDear == (NasiGoreng :> 2750000) @@ (AyamBakar :> 3000000)

\* var menuList = map[string]float64{...}, prices in hundredths
menuList == (NasiGoreng :> 2500000) @@ (AyamBakar :> 3000000)

(***************************************************************************)
(* Order.                                                                  *)
(***************************************************************************)
NewOrder ==
  [Items |-> <<>>, Total |-> 0, Payment |-> 0, Change |-> 0, Encrypted |-> <<>>]

\* the loop of calculateTotal over items[1..n], starting from acc
RECURSIVE SumFrom(_, _, _)
SumFrom(acc, items, i) ==
  IF i > Len(items) THEN acc
  ELSE SumFrom(acc + items[i].Price * items[i].Quantity, items, i + 1)

\* mutant: the loop without "o.Total = 0", adding to the previous total
calculateTotalNoReset(o) == [o EXCEPT !.Total = SumFrom(o.Total, o.Items, 1)]

calculateTotal(o) == [o EXCEPT !.Total = SumFrom(0, o.Items, 1)]

AddItem(o, name, price, quantity) ==
  calculateTotal(
    [o EXCEPT !.Items =
       Append(@, [Name |-> name, Price |-> price, Quantity |-> quantity])])

\* mutant: the change computed the wrong way round
SetPaymentSwapped(o, payment) ==
  [o EXCEPT !.Payment = payment, !.Change = o.Total - payment]

\* order.Payment = payment; order.Change = payment - order.Total
SetPayment(o, payment) ==
  [o EXCEPT !.Payment = payment, !.Change = payment - o.Total]

\* mutant: the number of items written into the summary as well
OrderDetailsCount(o) ==
  Digits(Len(o.Items)) \o <<" ", "i", "t", "e", "m", "s", ",", " ">>
  \o <<"T", "o", "t", "a", "l", ":", " ">> \o Fmt2(o.Total)
  \o <<",", " ", "P", "a", "y", "m", "e", "n", "t", ":", " ">> \o Fmt2(o.Payment)
  \o <<",", " ", "C", "h", "a", "n", "g", "e", ":", " ">> \o Fmt2(o.Change)

\* fmt.Sprintf("Total: %.2f, Payment: %.2f, Change: %.2f", ...)
OrderDetails(o) ==
  <<"T", "o", "t", "a", "l", ":", " ">> \o Fmt2(o.Total)
  \o <<",", " ", "P", "a", "y", "m", "e", "n", "t", ":", " ">> \o Fmt2(o.Payment)
  \o <<",", " ", "C", "h", "a", "n", "g", "e", ":", " ">> \o Fmt2(o.Change)

(***************************************************************************)
(* State.                                                                  *)
(***************************************************************************)
VARIABLES
  order,           \* the Order each pointer refers to
  orders,          \* buffer of the channel p.orders
  results,         \* buffer of the channel p.results
  ordersClosed,    \* close(p.orders) has run
  resultsClosed,   \* close(p.results) has run
  wg,              \* counter of p.wg
  pc,              \* position of the goroutine ProcessOrder spawned for an order
  branch,          \* the select case that goroutine took
  fatal,           \* runtime panic outside main's recover: the process is gone
  out,             \* lines written to standard output
  mpc,             \* position of the coordinating goroutine
  sel,             \* main: the menu entry chosen, awaiting its quantity
  added,           \* main: the arguments of the AddItem calls made, in order
  processedOrder,  \* main: the pointer received from p.results
  panicVal,        \* main: the value passed to panic, "" when none
  next,            \* client of SpecProc: the next order to submit
  taken,           \* client of SpecProc: the orders received, in order
  sawFull          \* ProcessOrder has been called with p.orders holding OrdersCap

procVars == <<order, orders, results, ordersClosed, resultsClosed, wg, pc, branch, fatal>>
mainVars == <<mpc, sel, added, processedOrder, panicVal, next, taken, sawFull>>
vars == <<procVars, out, mainVars>>

Line(name, arg) == [line |-> name, arg |-> arg]

Live(o) == pc[o] \in {"select", "encode", "push", "exit"}

\* NewRestaurantOrderProcessor(), no ProcessOrder call made yet
NewRestaurantOrderProcessor ==
  /\ orders = <<>>
  /\ results = <<>>
  /\ ordersClosed = FALSE
  /\ resultsClosed = FALSE
  /\ wg = 0
  /\ pc = [o \in Orders |-> "idle"]
  /\ branch = [o \in Orders |-> "none"]
  /\ fatal = ""

(***************************************************************************)
(* RestaurantOrderProcessor.ProcessOrder and the goroutine it spawns.      *)
(***************************************************************************)
\* mutant: the send done by the caller itself, which waits for room
ProcessOrderBlocking(o) ==
  /\ Len(orders) < OrdersCap
  /\ orders' = Append(orders, o)
  /\ wg' = wg + 1
  /\ pc' = [pc EXCEPT ![o] = "encode"]
  /\ branch' = [branch EXCEPT ![o] = "send"]
  /\ UNCHANGED <<order, results, ordersClosed, resultsClosed, fatal>>

\* mutant: the goroutine started without p.wg.Add(1)
ProcessOrderNoAdd(o) ==
  /\ pc' = [pc EXCEPT ![o] = "select"]
  /\ UNCHANGED <<order, orders, results, ordersClosed, resultsClosed, wg, branch, fatal>>

\* p.wg.Add(1); go func() {...}(): returns at once, whatever the queues hold
ProcessOrder(o) ==
  /\ wg' = wg + 1
  /\ pc' = [pc EXCEPT ![o] = "select"]
  /\ UNCHANGED <<order, orders, results, ordersClosed, resultsClosed, branch, fatal>>

\* mutant: the timeout case reports and then goes on to summarize the order
WorkerTimeoutFallsThrough(o) ==
  /\ fatal = ""
  /\ pc[o] = "select"
  /\ branch' = [branch EXCEPT ![o] = "timeout"]
  /\ out' = Append(out, Line("Timeout processing order", <<>>))
  /\ pc' = [pc EXCEPT ![o] = "encode"]
  /\ UNCHANGED <<order, orders, results, ordersClosed, resultsClosed, wg, fatal, mainVars>>

\* case <-time.After(p.timeout): fmt.Println("Timeout processing order")
WorkerTimeout(o) ==
  /\ fatal = ""
  /\ pc[o] = "select"
  /\ branch' = [branch EXCEPT ![o] = "timeout"]
  /\ out' = Append(out, Line("Timeout processing order", <<>>))
  /\ pc' = [pc EXCEPT ![o] = "exit"]
  /\ UNCHANGED <<order, orders, results, ordersClosed, resultsClosed, wg, fatal, mainVars>>

\* mutant: after the send the worker goes straight to the push, before the
\* summary is computed
WorkerSendSkipsEncode(o) ==
  /\ fatal = ""
  /\ pc[o] = "select"
  /\ IF ordersClosed
       THEN /\ fatal' = "send on closed channel"
            /\ UNCHANGED <<orders, branch, pc>>
       ELSE /\ Len(orders) < OrdersCap
            /\ orders' = Append(orders, o)
            /\ branch' = [branch EXCEPT ![o] = "send"]
            /\ pc' = [pc EXCEPT ![o] = "push"]
            /\ UNCHANGED fatal
  /\ UNCHANGED <<order, results, ordersClosed, resultsClosed, wg, out, mainVars>>

\* case p.orders <- order: the send needs room in the buffer; on a closed
\* channel it panics in the worker goroutine, which ends the process
WorkerSend(o) ==
  /\ fatal = ""
  /\ pc[o] = "select"
  /\ IF ordersClosed
       THEN /\ fatal' = "send on closed channel"
            /\ UNCHANGED <<orders, branch, pc>>
       ELSE /\ Len(orders) < OrdersCap
            /\ orders' = Append(orders, o)
            /\ branch' = [branch EXCEPT ![o] = "send"]
            /\ pc' = [pc EXCEPT ![o] = "encode"]
            /\ UNCHANGED fatal
  /\ UNCHANGED <<order, results, ordersClosed, resultsClosed, wg, out, mainVars>>

\* mutant: the summary built from the order at the head of p.orders instead
\* of the goroutine's own order
WorkerEncodeHead(o) ==
  /\ fatal = ""
  /\ pc[o] = "encode"
  /\ \E orderDetails \in {OrderDetails(order[Head(orders)])} :
       order' = [order EXCEPT ![o].Encrypted = EncodeToString(orderDetails)]
  /\ pc' = [pc EXCEPT ![o] = "push"]
  /\ UNCHANGED <<orders, results, ordersClosed, resultsClosed, wg, branch, fatal, out, mainVars>>

\* mutant: the worker takes an order off p.orders when it summarizes
WorkerEncodeDequeues(o) ==
  /\ fatal = ""
  /\ pc[o] = "encode"
  /\ \E orderDetails \in {OrderDetails(order[o])} :
       order' = [order EXCEPT ![o].Encrypted = EncodeToString(orderDetails)]
  /\ orders' = Tail(orders)
  /\ pc' = [pc EXCEPT ![o] = "push"]
  /\ UNCHANGED <<results, ordersClosed, resultsClosed, wg, branch, fatal, out, mainVars>>

\* orderDetails := fmt.Sprintf(...); order.Encrypted = base64...(orderDetails)
WorkerEncode(o) ==
  /\ fatal = ""
  /\ pc[o] = "encode"
  /\ \E orderDetails \in {OrderDetails(order[o])} :
       order' = [order EXCEPT ![o].Encrypted = EncodeToString(orderDetails)]
  /\ pc' = [pc EXCEPT ![o] = "push"]
  /\ UNCHANGED <<orders, results, ordersClosed, resultsClosed, wg, branch, fatal, out, mainVars>>

\* mutant: the summarized order is not sent to p.results
WorkerPushDrops(o) ==
  /\ fatal = ""
  /\ pc[o] = "push"
  /\ pc' = [pc EXCEPT ![o] = "exit"]
  /\ UNCHANGED <<order, orders, results, ordersClosed, resultsClosed, wg, branch, fatal, out, mainVars>>

\* mutant: p.results with room for one order fewer than p.orders
WorkerPushSmaller(o) ==
  /\ fatal = ""
  /\ pc[o] = "push"
  /\ IF resultsClosed
       THEN /\ fatal' = "send on closed channel"
            /\ UNCHANGED <<results, pc>>
       ELSE /\ Len(results) < ResultsCap - 1
            /\ results' = Append(results, o)
            /\ pc' = [pc EXCEPT ![o] = "exit"]
            /\ UNCHANGED fatal
  /\ UNCHANGED <<order, orders, ordersClosed, resultsClosed, wg, branch, out, mainVars>>

\* p.results <- order
WorkerPush(o) ==
  /\ fatal = ""
  /\ pc[o] = "push"
  /\ IF resultsClosed
       THEN /\ fatal' = "send on closed channel"
            /\ UNCHANGED <<results, pc>>
       ELSE /\ Len(results) < ResultsCap
            /\ results' = Append(results, o)
            /\ pc' = [pc EXCEPT ![o] = "exit"]
            /\ UNCHANGED fatal
  /\ UNCHANGED <<order, orders, ordersClosed, resultsClosed, wg, branch, out, mainVars>>

\* defer p.wg.Done()
WorkerDone(o) ==
  /\ fatal = ""
  /\ pc[o] = "exit"
  /\ IF wg = 0
       THEN /\ fatal' = "sync: negative WaitGroup counter"
            /\ UNCHANGED <<wg, pc>>
       ELSE /\ wg' = wg - 1
            /\ pc' = [pc EXCEPT ![o] = "finished"]
            /\ UNCHANGED fatal
  /\ UNCHANGED <<order, orders, results, ordersClosed, resultsClosed, branch, out, mainVars>>

Worker(o) ==
  \/ WorkerTimeout(o)
  \/ WorkerSend(o)
  \/ WorkerEncode(o)
  \/ WorkerPush(o)
  \/ WorkerDone(o)

(***************************************************************************)
(* The coordinator's use of the processor after its submissions.           *)
(***************************************************************************)
\* mutant: main goes on without waiting for the counter to reach zero
AwaitAllNoWait ==
  /\ fatal = ""
  /\ mpc = "wait"
  /\ mpc' = "closeOrders"
  /\ UNCHANGED <<procVars, out, sel, added, processedOrder, panicVal, next, taken, sawFull>>

\* processor.wg.Wait()
AwaitAll ==
  /\ fatal = ""
  /\ mpc = "wait"
  /\ wg = 0
  /\ mpc' = "closeOrders"
  /\ UNCHANGED <<procVars, out, sel, added, processedOrder, panicVal, next, taken, sawFull>>

\* mutant: main goes from close(p.orders) straight to the receive
CloseOrdersThenTake ==
  /\ fatal = ""
  /\ mpc = "closeOrders"
  /\ ordersClosed' = TRUE
  /\ mpc' = "take"
  /\ UNCHANGED <<order, orders, results, resultsClosed, wg, pc, branch, fatal, out>>
  /\ UNCHANGED <<sel, added, processedOrder, panicVal, next, taken, sawFull>>

\* close(processor.orders)
CloseOrders ==
  /\ fatal = ""
  /\ mpc = "closeOrders"
  /\ ordersClosed' = TRUE
  /\ mpc' = "closeResults"
  /\ UNCHANGED <<order, orders, results, resultsClosed, wg, pc, branch, fatal, out>>
  /\ UNCHANGED <<sel, added, processedOrder, panicVal, next, taken, sawFull>>

\* mutant: p.results is left open
CloseResultsMissing ==
  /\ fatal = ""
  /\ mpc = "closeResults"
  /\ mpc' = "take"
  /\ UNCHANGED <<procVars, out, sel, added, processedOrder, panicVal, next, taken, sawFull>>

\* close(processor.results)
CloseResults ==
  /\ fatal = ""
  /\ mpc = "closeResults"
  /\ resultsClosed' = TRUE
  /\ mpc' = "take"
  /\ UNCHANGED <<order, orders, results, ordersClosed, wg, pc, branch, fatal, out>>
  /\ UNCHANGED <<sel, added, processedOrder, panicVal, next, taken, sawFull>>

\* <-processor.results can proceed: a buffered value, or closed and drained
RecvReady == results # <<>> \/ resultsClosed
\* what it yields: the oldest buffered pointer, or nil once closed and drained
RecvValue == IF results # <<>> THEN Head(results) ELSE Nil

(***************************************************************************)
(* Input handling of main.                                                 *)
(***************************************************************************)
\* mutant: digits let through, as with the pattern ^[a-zA-Z0-9\s]+$
validateInputDigits(v) ==
  /\ v # <<>>
  /\ \A i \in DOMAIN v : IsLetter(v[i]) \/ IsSpace(v[i]) \/ IsDigit(v[i])

\* validateInput, case string: regexp ^[a-zA-Z\s]+$
validateInput(v) == v # <<>> /\ \A i \in DOMAIN v : IsLetter(v[i]) \/ IsSpace(v[i])

RECURSIVE DigitsVal(_, _)
DigitsVal(acc, s) ==
  IF s = <<>> THEN acc ELSE DigitsVal(acc * 10 + DigitVal(Head(s)), Tail(s))

AllDigits(s) == \A i \in DOMAIN s : IsDigit(s[i])

\* strconv.Atoi: an optional sign, then one or more decimal digits
Atoi(s) ==
  LET signed == s # <<>> /\ Head(s) \in {"+", "-"}
      body == IF signed THEN Tail(s) ELSE s
  IN  IF body # <<>> /\ AllDigits(body)
        THEN [ok |-> TRUE,
              val |-> IF signed /\ Head(s) = "-"
                        THEN 0 - DigitsVal(0, body) ELSE DigitsVal(0, body)]
        ELSE [ok |-> FALSE, val |-> 0]

\* strconv.ParseFloat(s, 64) on plain decimals: an optional sign, digits, and
\* an optional point with up to two digits; the value in hundredths.  Every
\* other line of PaymentLines is one ParseFloat rejects too.
ParseFloat(s) ==
  LET signed == s # <<>> /\ Head(s) \in {"+", "-"}
      body == IF signed THEN Tail(s) ELSE s
      dots == {i \in DOMAIN body : body[i] = "."}
      dot == IF dots = {} THEN Len(body) + 1 ELSE CHOOSE i \in dots : TRUE
      whole == SubSeq(body, 1, dot - 1)
      frac == SubSeq(body, dot + 1, Len(body))
      ok == /\ Cardinality(dots) <= 1
            /\ AllDigits(whole) /\ AllDigits(frac)
            /\ Len(whole) + Len(frac) > 0
            /\ Len(frac) <= 2
      cents == IF Len(frac) = 0 THEN 0
               ELSE IF Len(frac) = 1 THEN 10 * DigitVal(frac[1])
               ELSE 10 * DigitVal(frac[1]) + DigitVal(frac[2])
      mag == IF ok THEN 100 * DigitsVal(0, whole) + cents ELSE 0
  IN  [ok |-> ok, val |-> IF signed /\ Head(s) = "-" THEN 0 - mag ELSE mag]

\* lines the user may type at "Pilihan: "
SelectionLines ==
  { Selesai,
    NasiGoreng,
    <<" ", "A", "y", "a", "m", " ", "B", "a", "k", "a", "r", " ">>,
    NasiGoreng \o <<"2">>,
    <<>>,
    <<"s", "a", "t", "e">> }

\* lines the user may type at "Masukkan jumlah: "
QuantityLines == { <<"2">>, <<"1">>, <<"-", "1">>, <<"d", "u", "a">> }

\* lines the user may type at "Masukkan jumlah uang: "
PaymentLines ==
  { <<"1", "0", "0", "0", "0", "0">>,
    <<"3", "0", "0", "0", "0">>,
    <<"6", "0", "0", "0", "0", ".", "5", "0">>,
    <<"b", "a", "n", "y", "a", "k">> }

(***************************************************************************)
(* main.                                                                   *)
(***************************************************************************)
\* mutant: a failed field is asked for again instead of ending the run
PanicRetry(v) ==
  /\ panicVal' = v
  /\ mpc' = mpc

\* mutant: os.Exit in place of panic, which runs no deferred function
PanicExit(v) ==
  /\ panicVal' = v
  /\ mpc' = "exited"

\* panic(v) in main: unwinds to the deferred functions
Panic(v) ==
  /\ panicVal' = v
  /\ mpc' = "recover"

\* lines 143-166: print the menu, read a selection, validate, look it up
SelectLine(line) ==
  /\ fatal = ""
  /\ mpc = "select"
  /\ out' = out \o <<Line("Menu", <<>>), Line("Pilihan: ", <<>>)>>
  /\ LET input == TrimSpace(ToLower(line))
     IN  IF input = Selesai
           THEN mpc' = "pay" /\ UNCHANGED <<sel, panicVal>>
         ELSE IF ~validateInput(input)
           THEN Panic("input hanya boleh berisi huruf dan spasi") /\ UNCHANGED sel
         ELSE IF input \notin DOMAIN menuList
           THEN Panic("Menu tidak tersedia") /\ UNCHANGED sel
         ELSE /\ Len(order[SessionOrder].Items) < MaxItems
              /\ sel' = input
              /\ mpc' = "quantity"
              /\ UNCHANGED panicVal
  /\ UNCHANGED <<procVars, added, processedOrder, next, taken, sawFull>>

\* one pass of the loop up to the menu lookup, on any line the user may type
SelectItem == \E line \in SelectionLines : SelectLine(line)

\* lines 168-176: read the quantity, parse it, order.AddItem(...)
ReadQuantity ==
  /\ fatal = ""
  /\ mpc = "quantity"
  /\ out' = Append(out, Line("Masukkan jumlah: ", <<>>))
  /\ \E line \in QuantityLines :
       LET qty == Atoi(TrimSpace(line))
       IN  IF ~qty.ok
             THEN Panic("Jumlah tidak valid") /\ UNCHANGED <<order, added>>
             ELSE /\ order' = [order EXCEPT ![SessionOrder] =
                                 AddItem(@, Title(sel), menuList[sel], qty.val)]
                  /\ added' = Append(added, <<Title(sel), menuList[sel], qty.val>>)
                  /\ mpc' = "select"
                  /\ UNCHANGED panicVal
  /\ UNCHANGED <<orders, results, ordersClosed, resultsClosed, wg, pc, branch, fatal>>
  /\ UNCHANGED <<sel, processedOrder, next, taken, sawFull>>

\* lines 180-200: show the order, read the payment, check it, store it
PayLine(line) ==
  /\ fatal = ""
  /\ mpc = "pay"
  /\ out' = out \o <<Line("Pesanan Anda:", <<Len(order[SessionOrder].Items)>>),
                     Line("Total Harga: Rp", Fmt2(order[SessionOrder].Total)),
                     Line("Masukkan jumlah uang: ", <<>>)>>
  /\ LET payment == ParseFloat(TrimSpace(line))
     IN  IF ~payment.ok
           THEN Panic("Jumlah pembayaran tidak valid") /\ UNCHANGED order
         ELSE IF payment.val < order[SessionOrder].Total
           THEN Panic("Pembayaran kurang!") /\ UNCHANGED order
         ELSE /\ order' = [order EXCEPT ![SessionOrder] = SetPayment(@, payment.val)]
              /\ mpc' = "submit"
              /\ UNCHANGED panicVal
  /\ UNCHANGED <<orders, results, ordersClosed, resultsClosed, wg, pc, branch, fatal>>
  /\ UNCHANGED <<sel, added, processedOrder, next, taken, sawFull>>

\* the order display and the payment, on any line the user may type
Pay == \E line \in PaymentLines : PayLine(line)

\* line 203: processor.ProcessOrder(order)
Submit ==
  /\ fatal = ""
  /\ mpc = "submit"
  /\ ProcessOrder(SessionOrder)
  /\ sawFull' = (sawFull \/ Len(orders) = OrdersCap)
  /\ mpc' = "wait"
  /\ UNCHANGED <<out, sel, added, processedOrder, panicVal, next, taken>>

\* line 211: processedOrder := <-processor.results
Take ==
  /\ fatal = ""
  /\ mpc = "take"
  /\ RecvReady
  /\ processedOrder' = RecvValue
  /\ results' = IF results # <<>> THEN Tail(results) ELSE results
  /\ mpc' = "print"
  /\ UNCHANGED <<order, orders, ordersClosed, resultsClosed, wg, pc, branch, fatal, out>>
  /\ UNCHANGED <<sel, added, panicVal, next, taken, sawFull>>

\* lines 214-216: processedOrder.Payment dereferences the pointer received
PrintResult ==
  /\ fatal = ""
  /\ mpc = "print"
  /\ IF processedOrder = Nil
       THEN /\ Panic("runtime error: invalid memory address or nil pointer dereference")
            /\ UNCHANGED out
       ELSE /\ out' = out \o
                 <<Line("Uang yang dibayar: Rp", Fmt2(order[processedOrder].Payment)),
                   Line("Kembalian: Rp", Fmt2(order[processedOrder].Change)),
                   Line("Pesanan (encoded format): ", order[processedOrder].Encrypted)>>
            /\ mpc' = "recover"
            /\ UNCHANGED panicVal
  /\ UNCHANGED <<procVars, sel, added, processedOrder, next, taken, sawFull>>

\* lines 133-137: the deferred recover, run on return and on panic
Recover ==
  /\ fatal = ""
  /\ mpc = "recover"
  /\ out' = IF panicVal # "" THEN Append(out, Line("Error: ", <<panicVal>>)) ELSE out
  /\ mpc' = "farewell"
  /\ UNCHANGED <<procVars, sel, added, processedOrder, panicVal, next, taken, sawFull>>

\* lines 127-130: the deferred farewell, run last
Farewell ==
  /\ fatal = ""
  /\ mpc = "farewell"
  /\ out' = out \o <<Line("Menggunakan bantuan di gnulinux lab...", <<>>),
                     Line("Program selesai", <<>>)>>
  /\ mpc' = "exited"
  /\ UNCHANGED <<procVars, sel, added, processedOrder, panicVal, next, taken, sawFull>>

\* main up to line 141: a new processor and a new order
Init ==
  /\ NewRestaurantOrderProcessor
  /\ order = [o \in Orders |-> NewOrder]
  /\ out = <<>>
  /\ mpc = "select"
  /\ sel = <<>>
  /\ added = <<>>
  /\ processedOrder = Nil
  /\ panicVal = ""
  /\ next = SessionOrder
  /\ taken = <<>>
  /\ sawFull = FALSE

Next ==
  \/ SelectItem
  \/ ReadQuantity
  \/ Pay
  \/ Submit
  \/ \E o \in Orders : Worker(o)
  \/ AwaitAll
  \/ CloseOrders
  \/ CloseResults
  \/ Take
  \/ PrintResult
  \/ Recover
  \/ Farewell

Spec == Init /\ [][Next]_vars

(***************************************************************************)
(* The processor under a client that submits several orders concurrently.  *)
(* ProcessOrder, the workers, wg.Wait and the two close calls are the      *)
(* ones above; the client is the calling pattern of main lines 203-211     *)
(* repeated over NumOrders orders.  The processor may already have served  *)
(* k earlier orders one after the other (each accepted, summarized and     *)
(* still on p.results), so that a full p.orders is within reach.           *)
(***************************************************************************)
\* a finalized order: one menu entry, quantity i, paid with 5000 to spare
ClientOrder(i) ==
  SetPayment(AddItem(NewOrder, Title(NasiGoreng), menuList[NasiGoreng], i),
             menuList[NasiGoreng] * i + 500000)

\* order i after its worker ran to completion
Served(i) ==
  [ClientOrder(i) EXCEPT !.Encrypted = EncodeToString(OrderDetails(ClientOrder(i)))]

FirstNew == OrdersCap + 1

\* how many earlier orders the processor has served: none (a fresh
\* processor, room for all the new orders), or so many that p.orders has
\* room for only some of the NumOrders new ones, or for none
Earlier == {0} \cup ((OrdersCap - NumOrders + 1) .. OrdersCap)

InitProc ==
  \E k \in Earlier :
    /\ order = [o \in Orders |-> IF o <= k THEN Served(o) ELSE ClientOrder(o)]
    /\ orders = [i \in 1 .. k |-> i]
    /\ results = [i \in 1 .. k |-> i]
    /\ ordersClosed = FALSE
    /\ resultsClosed = FALSE
    /\ wg = 0
    /\ pc = [o \in Orders |-> IF o <= k THEN "finished" ELSE "idle"]
    /\ branch = [o \in Orders |-> IF o <= k THEN "send" ELSE "none"]
    /\ fatal = ""
    /\ out = <<>>
    /\ mpc = "submit"
    /\ sel = <<>>
    /\ added = <<>>
    /\ processedOrder = Nil
    /\ panicVal = ""
    /\ next = FirstNew
    /\ taken = <<>>
    /\ sawFull = FALSE

\* processor.ProcessOrder(order) on the next order
ClientSubmit ==
  /\ fatal = ""
  /\ mpc = "submit"
  /\ next \in Orders
  /\ ProcessOrder(next)
  /\ sawFull' = (sawFull \/ Len(orders) = OrdersCap)
  /\ next' = next + 1
  /\ UNCHANGED <<out, mpc, sel, added, processedOrder, panicVal, taken>>

\* the client has issued all the submissions it wanted to
ClientStop ==
  /\ fatal = ""
  /\ mpc = "submit"
  /\ mpc' = "wait"
  /\ UNCHANGED <<procVars, out, sel, added, processedOrder, panicVal, next, taken, sawFull>>

\* <-processor.results, between submissions or after the close; nil ends it
ClientTake ==
  /\ fatal = ""
  /\ mpc \in {"submit", "take"}
  /\ RecvReady
  /\ IF RecvValue = Nil
       THEN mpc' = "done" /\ UNCHANGED <<results, taken>>
       ELSE /\ taken' = Append(taken, RecvValue)
            /\ results' = Tail(results)
            /\ UNCHANGED mpc
  /\ UNCHANGED <<order, orders, ordersClosed, resultsClosed, wg, pc, branch, fatal, out>>
  /\ UNCHANGED <<sel, added, processedOrder, panicVal, next, sawFull>>

NextProc ==
  \/ ClientSubmit
  \/ ClientStop
  \/ ClientTake
  \/ \E o \in Orders : Worker(o)
  \/ AwaitAll
  \/ CloseOrders
  \/ CloseResults

SpecProc == InitProc /\ [][NextProc]_vars

(***************************************************************************)
(* Fairness.  The Go scheduler runs every runnable goroutine eventually:   *)
(* a worker that can take a step takes one, and so does main once it no    *)
(* longer waits for the user.  A select with a timer case cannot stay      *)
(* pending for ever.  Nothing is assumed about when the user types.        *)
(***************************************************************************)
MainAfterInput ==
  \/ Submit
  \/ AwaitAll
  \/ CloseOrders
  \/ CloseResults
  \/ Take
  \/ PrintResult
  \/ Recover
  \/ Farewell

\* main spawns one worker, for SessionOrder
FairSpec ==
  /\ Spec
  /\ WF_vars(MainAfterInput)
  /\ WF_vars(Worker(SessionOrder))

\* the client spawns workers for the orders from FirstNew on
FairSpecProc ==
  /\ SpecProc
  /\ \A o \in {n \in Orders : n >= FirstNew} : WF_vars(Worker(o))

\* the client's goroutine is scheduled as well: its wg.Wait returns once the
\* counter is zero
FairSpecAwait == FairSpecProc /\ WF_vars(AwaitAll)

(***************************************************************************)
(* Properties.                                                             *)
(***************************************************************************)
Count(s, x) == Cardinality({i \in DOMAIN s : s[i] = x})
NewOrders == {o \in Orders : o >= FirstNew}
Submitted == {o \in Orders : pc[o] # "idle"}
AfterWait == mpc \in {"closeOrders", "closeResults", "take", "done", "print",
                      "recover", "farewell", "exited"}
\* the summary the source computes from an order's own three amounts
Summary(o) ==
  CHOOSE e \in {EncodeToString(d) : d \in {OrderDetails(order[o])}} : TRUE

\* C1: ProcessOrder never blocks its caller and reports nothing to it: a
\* client about to submit can always do so, whatever the two queues hold
\* (a full p.orders included), and the step that starts a worker only raises
\* the WaitGroup counter and leaves that worker at its select: it touches
\* neither queue and takes neither branch of the race.
C1_SubmitNeverBlocks ==
  /\ []((fatal = "" /\ mpc = "submit" /\ next \in Orders) => ENABLED ClientSubmit)
  /\ [][\A o \in Orders :
          (pc[o] = "idle" /\ pc'[o] # "idle") =>
             /\ pc'[o] = "select"
             /\ wg' = wg + 1
             /\ orders' = orders /\ results' = results
             /\ branch' = branch /\ fatal' = fatal /\ out' = out]_vars

\* a submission made while p.orders held OrdersCap orders has returned
C1_Witness ==
  /\ sawFull
  /\ Len(orders) = OrdersCap
  /\ \E o \in NewOrders : pc[o] = "select"

\* C2: an order whose worker won the inbound send is never lost: it comes to
\* be on p.results with its summary stored.
C2_AcceptedNeverLost ==
  \A o \in NewOrders :
    (pc[o] = "encode") ~> (o \in Range(results) /\ order[o].Encrypted # <<>>)

C2_Witness ==
  \E o \in NewOrders :
    /\ branch[o] = "send"
    /\ o \in Range(results)
    /\ order[o].Encrypted # <<>>

\* C3: an order whose worker took the timeout case is dropped for good: it
\* is on neither queue, was never received, has no summary, its worker only
\* has its exit left, and it stays that way.
C3_TimedOutDropped ==
  /\ [](\A o \in Orders :
          branch[o] = "timeout" =>
            /\ o \notin Range(orders)
            /\ o \notin Range(results)
            /\ o \notin Range(taken)
            /\ order[o].Encrypted = <<>>
            /\ pc[o] \in {"exit", "finished"})
  /\ [][\A o \in Orders : branch[o] = "timeout" => branch'[o] = "timeout"]_vars

C3_Witness ==
  /\ mpc = "done"
  /\ \E o \in NewOrders : branch[o] = "timeout" /\ pc[o] = "finished"

\* what the client has received or can still receive
Retrievable == taken \o results

\* C4, as claimed: N <= OrdersCap orders submitted concurrently to a fresh
\* processor are all retrievable after awaitAll, each exactly once and each
\* with the summary of its own fields.
C4_AllRetrieved ==
  (AfterWait /\ pc[1] = "idle" /\ Cardinality(Submitted) <= OrdersCap) =>
     \A o \in Submitted :
       /\ Count(Retrievable, o) = 1
       /\ order[o].Encrypted = Summary(o)

\* C4, amended: after awaitAll exactly the submitted orders whose worker
\* won the inbound send are retrievable, each exactly once, each with the
\* summary of its own fields and of no other order's; an order whose worker
\* took the timeout case is not; so all N are when no worker timed out.
C4_AcceptedRetrieved ==
  AfterWait =>
     /\ \A o \in Submitted :
          /\ branch[o] \in {"send", "timeout"}
          /\ Count(Retrievable, o) = (IF branch[o] = "send" THEN 1 ELSE 0)
          /\ branch[o] = "send" => order[o].Encrypted = Summary(o)
     /\ \A o \in Range(Retrievable) : o \in Submitted
     /\ \A a, b \in Range(Retrievable) :
          a # b => order[a].Encrypted # order[b].Encrypted
     /\ (\A o \in Submitted : branch[o] # "timeout") =>
          Cardinality(Range(Retrievable)) = Cardinality(Submitted)

\* a fresh processor, all NumOrders orders submitted, summarized and received
C4_Witness ==
  /\ mpc = "done"
  /\ pc[1] = "idle"
  /\ Len(taken) = NumOrders
  /\ \A o \in NewOrders : branch[o] = "send"

\* C5: wg.Wait returns only when every worker spawned by an earlier
\* ProcessOrder call has finished: it cannot return while one is live, and
\* once it has returned every submitted order's worker has ended.
C5_AwaitAllWaits ==
  /\ (mpc = "wait" /\ \E o \in Orders : Live(o)) => ~ENABLED AwaitAll
  /\ AfterWait => (wg = 0 /\ \A o \in Submitted : pc[o] = "finished")

\* awaitAll has returned after one worker summarized and another timed out
C5_Witness ==
  /\ mpc = "closeOrders"
  /\ \E a, b \in NewOrders :
       /\ pc[a] = "finished" /\ branch[a] = "send"
       /\ pc[b] = "finished" /\ branch[b] = "timeout"

\* C6: no worker ever sends on a closed queue: whenever p.orders or
\* p.results is closed no worker is live, and the runtime never panics.
C6_NoSendOnClosed ==
  /\ fatal = ""
  /\ (ordersClosed \/ resultsClosed) => \A o \in Orders : ~Live(o)

C6_Witness ==
  /\ ordersClosed /\ resultsClosed
  /\ pc[SessionOrder] = "finished"
  /\ branch[SessionOrder] = "send"

NilDereference == "runtime error: invalid memory address or nil pointer dereference"

\* C7: the receive after the close yields a completed order when one is on
\* p.results and otherwise an Empty outcome the caller tells apart, so main
\* never reads payment, change or summary through a pointer to no order.
C7_NeverReadsMissingOrder ==
  /\ mpc = "print" => processedOrder # Nil
  /\ panicVal # NilDereference

\* C8: main never blocks for ever at the receive of line 211: once the order
\* is submitted the session reaches its exit, also when the sole order timed
\* out and p.results is empty.
C8_SessionExits ==
  (mpc \in {"wait", "closeOrders", "closeResults", "take"}) ~> (mpc = "exited")

C8_Witness ==
  /\ mpc = "exited"
  /\ branch[SessionOrder] = "timeout"
  /\ processedOrder = Nil

Farewells == Count([i \in DOMAIN out |-> out[i].line], "Program selesai")

\* C9: the farewell is printed exactly once, as the last output, on every
\* way out of main: the session can stop only at its exit, the farewell is
\* on the output exactly when main has exited and then it is the last line,
\* and after a panic the diagnostic "Error: <value>" comes just before it.
C9_FarewellLast ==
  /\ fatal = ""
  /\ mpc # "exited" => ENABLED Next
  /\ Farewells = (IF mpc = "exited" THEN 1 ELSE 0)
  /\ mpc = "exited" =>
       /\ out[Len(out)].line = "Program selesai"
       /\ out[Len(out) - 1].line = "Menggunakan bantuan di gnulinux lab..."
       /\ panicVal # "" =>
            /\ out[Len(out) - 2].line = "Error: "
            /\ out[Len(out) - 2].arg = <<panicVal>>
       /\ panicVal = "" => out[Len(out) - 2].line = "Pesanan (encoded format): "

\* the exit after the sole order timed out and the receive gave nil
C9_Witness ==
  /\ mpc = "exited"
  /\ branch[SessionOrder] = "timeout"
  /\ panicVal = NilDereference

RECURSIVE SumItems(_)
SumItems(items) ==
  IF items = <<>> THEN 0
  ELSE SumItems(Tail(items)) + Head(items).Price * Head(items).Quantity

\* C10: after any sequence of AddItem calls on a new order, Total is the sum
\* of Price * Quantity over the items, the items are the calls' arguments in
\* call order, and before any call Total is 0 and there is no item.
C10_TotalIsSum ==
  LET o == order[SessionOrder]
  IN  /\ o.Total = SumItems(o.Items)
      /\ Len(o.Items) = Len(added)
      /\ \A i \in DOMAIN added :
           o.Items[i] = [Name |-> added[i][1], Price |-> added[i][2],
                         Quantity |-> added[i][3]]
      /\ added = <<>> => (o.Total = 0 /\ o.Items = <<>>)

\* two different items added, the second after the first
C10_Witness ==
  LET o == order[SessionOrder]
  IN  /\ Len(o.Items) = 2
      /\ o.Items[1].Name # o.Items[2].Name
      /\ o.Items[1].Quantity # o.Items[2].Quantity
      /\ mpc = "pay"

(***************************************************************************)
(* C11.  The payment check of lines 195-200.                                *)
(***************************************************************************)
InsufficientPayment == "Pembayaran kurang!"

\* C11: at the payment prompt every line that parses to payment >= total
\* stores payment and change = payment - total and goes on to submit, and
\* every line that parses to payment < total fails with InsufficientPayment
\* and changes nothing on the order; after InsufficientPayment the order's
\* payment and change stay unset and the order is never submitted; an order
\* that was submitted has payment >= total and change = payment - total.
C11_ChangeInvariant ==
  LET o == order[SessionOrder]
  IN  /\ (mpc = "pay" /\ fatal = "") =>
           \A line \in PaymentLines :
             LET payment == ParseFloat(TrimSpace(line))
             IN  payment.ok =>
                   IF payment.val >= o.Total
                     THEN /\ ENABLED (/\ PayLine(line)
                                      /\ mpc' = "submit"
                                      /\ order'[SessionOrder].Payment = payment.val
                                      /\ order'[SessionOrder].Change = payment.val - o.Total
                                      /\ order'[SessionOrder].Total = o.Total)
                          /\ ~ENABLED (PayLine(line) /\ panicVal' # "")
                     ELSE /\ ENABLED (/\ PayLine(line)
                                      /\ panicVal' = InsufficientPayment
                                      /\ order' = order)
                          /\ ~ENABLED (PayLine(line) /\ mpc' = "submit")
      /\ panicVal = InsufficientPayment =>
           /\ o.Payment = 0 /\ o.Change = 0 /\ o.Encrypted = <<>>
           /\ pc[SessionOrder] = "idle" /\ wg = 0
           /\ orders = <<>> /\ results = <<>>
           /\ mpc \in {"recover", "farewell", "exited"}
      /\ (mpc = "submit" \/ pc[SessionOrder] # "idle") =>
           /\ o.Payment >= o.Total
           /\ o.Change = o.Payment - o.Total

\* a session with an item that ended on a payment below the total
C11_Witness ==
  /\ mpc = "exited"
  /\ panicVal = InsufficientPayment
  /\ order[SessionOrder].Total > 0

(***************************************************************************)
(* C12.  The session nasi goreng x 2, ayam bakar x 1, selesai, 100000.      *)
(***************************************************************************)
\* the items typed so far, as name and quantity
Chosen == [i \in DOMAIN added |-> <<added[i][1], added[i][3]>>]

\* selection ended on nasi goreng x 2 and ayam bakar x 1, and 100000 was paid
Scenario ==
  /\ Chosen = << <<Title(NasiGoreng), 2>>, <<Title(AyamBakar), 1>> >>
  /\ mpc \notin {"select", "quantity", "pay"}
  /\ panicVal \notin {"Jumlah pembayaran tidak valid", InsufficientPayment}
  /\ order[SessionOrder].Payment = 10000000

Text80000 ==
  <<"T", "o", "t", "a", "l", ":", " ", "8", "0", "0", "0", "0", ".", "0",
    "0", ",", " ", "P", "a", "y", "m", "e", "n", "t", ":", " ", "1", "0",
    "0", "0", "0", "0", ".", "0", "0", ",", " ", "C", "h", "a", "n", "g",
    "e", ":", " ", "2", "0", "0", "0", "0", ".", "0", "0">>

Text85000 ==
  <<"T", "o", "t", "a", "l", ":", " ", "8", "5", "0", "0", "0", ".", "0",
    "0", ",", " ", "P", "a", "y", "m", "e", "n", "t", ":", " ", "1", "0",
    "0", "0", "0", "0", ".", "0", "0", ",", " ", "C", "h", "a", "n", "g",
    "e", ":", " ", "1", "5", "0", "0", "0", ".", "0", "0">>

Base64Of80000 ==
  <<"V", "G", "9", "0", "Y", "W", "w", "6", "I", "D", "g", "w", "M", "D",
    "A", "w", "L", "j", "A", "w", "L", "C", "B", "Q", "Y", "X", "l", "t",
    "Z", "W", "5", "0", "O", "i", "A", "x", "M", "D", "A", "w", "M", "D",
    "A", "u", "M", "D", "A", "s", "I", "E", "N", "o", "Y", "W", "5", "n",
    "Z", "T", "o", "g", "M", "j", "A", "w", "M", "D", "A", "u", "M", "D",
    "A", "=">>

\* C12 as stated: the scenario gives total 85000 and change 15000, and the
\* order received from p.results carries the summary of 85000.00, 100000.00
\* and 15000.00
C12_Total85000 ==
  Scenario =>
    /\ order[SessionOrder].Total = 8500000
    /\ order[SessionOrder].Change = 1500000
    /\ processedOrder = SessionOrder =>
         order[SessionOrder].Encrypted = EncodeToString(Text85000)

\* C12 amended: the scenario gives total 80000 (2 x 25000 + 30000) and change
\* 20000, and the order received from p.results, when the worker did not time
\* out, carries the base64 of exactly "Total: 80000.00, Payment: 100000.00,
\* Change: 20000.00"; the three printed lines show 100000.00, 20000.00 and
\* that summary
C12_Total80000 ==
  Scenario =>
    /\ order[SessionOrder].Total = 8000000
    /\ order[SessionOrder].Change = 2000000
    /\ processedOrder = SessionOrder =>
         /\ OrderDetails(order[SessionOrder]) = Text80000
         /\ order[SessionOrder].Encrypted = Base64Of80000
    /\ (mpc = "exited" /\ processedOrder = SessionOrder) =>
         \E i \in DOMAIN out :
           /\ i + 2 \in DOMAIN out
           /\ out[i] = Line("Uang yang dibayar: Rp", Fmt2(10000000))
           /\ out[i + 1] = Line("Kembalian: Rp", Fmt2(2000000))
           /\ out[i + 2] = Line("Pesanan (encoded format): ", Base64Of80000)

\* the scenario ran to the end and its order was received and printed
C12_Witness ==
  /\ Scenario
  /\ mpc = "exited"
  /\ processedOrder = SessionOrder
  /\ panicVal = ""

(***************************************************************************)
(* C13.  The panics of lines 160, 165, 173, 192 and 196.                    *)
(***************************************************************************)
\* the values main panics with on a bad selection, quantity or payment
InputFailures ==
  { "input hanya boleh berisi huruf dan spasi",
    "Menu tidak tersedia",
    "Jumlah tidak valid",
    "Jumlah pembayaran tidak valid",
    InsufficientPayment }

\* the prompts main prints before it reads a line
Prompts ==
  { Line("Pilihan: ", <<>>),
    Line("Masukkan jumlah: ", <<>>),
    Line("Masukkan jumlah uang: ", <<>>) }

\* a step taken after such a failure: no prompt, nothing added or changed
AfterFailure ==
  panicVal \in InputFailures =>
    /\ panicVal' = panicVal
    /\ order' = order /\ added' = added /\ sel' = sel
    /\ UNCHANGED procVars
    /\ \A i \in DOMAIN out' : i > Len(out) => out'[i] \notin Prompts

\* the failing step itself: it goes to the deferred functions at once
AtFailure ==
  (panicVal = "" /\ panicVal' \in InputFailures) =>
    /\ order' = order /\ added' = added
    /\ mpc' = "recover"

\* C13: once a selection, quantity or payment has failed, main is in its
\* deferred functions or has exited: it prompts for and reads no further
\* line, adds no item and changes nothing on the order, and the processor is
\* never used (no worker started, wg untouched, neither channel sent to,
\* closed or received from)
C13_FailureAborts ==
  /\ [](panicVal \in InputFailures =>
          /\ mpc \in {"recover", "farewell", "exited"}
          /\ ~ENABLED SelectItem /\ ~ENABLED ReadQuantity /\ ~ENABLED Pay
          /\ ~ENABLED Submit /\ ~ENABLED AwaitAll /\ ~ENABLED CloseOrders
          /\ ~ENABLED CloseResults /\ ~ENABLED Take
          /\ \A o \in Orders : pc[o] = "idle"
          /\ wg = 0 /\ orders = <<>> /\ results = <<>>
          /\ ~ordersClosed /\ ~resultsClosed
          /\ processedOrder = Nil
          /\ order[SessionOrder].Payment = 0
          /\ order[SessionOrder].Encrypted = <<>>)
  /\ [][AfterFailure]_vars
  /\ [][AtFailure]_vars

\* a run that added an item, failed on the next quantity, and ended
C13_Witness ==
  /\ mpc = "exited"
  /\ panicVal = "Jumlah tidak valid"
  /\ Len(added) = 1

(***************************************************************************)
(* C14.  The summary of lines 117-119 and its inverse.                      *)
(***************************************************************************)
\* the value of a base64 character
B64Value ==
  [c \in Range(B64Alphabet) |->
     (CHOOSE i \in DOMAIN B64Alphabet : B64Alphabet[i] = c) - 1]

\* the inverse of base64.StdEncoding: four characters to three bytes from
\* index i on, fewer where the group ends in "="
RECURSIVE DecodeFrom(_, _)
DecodeFrom(e, i) ==
  IF i + 3 > Len(e) THEN <<>>
  ELSE IF e[i + 2] = "=" THEN
    <<B64Value[e[i]] * 4 + B64Value[e[i + 1]] \div 16>>
  ELSE IF e[i + 3] = "=" THEN
    <<B64Value[e[i]] * 4 + B64Value[e[i + 1]] \div 16,
      (B64Value[e[i + 1]] % 16) * 16 + B64Value[e[i + 2]] \div 4>>
  ELSE
    <<B64Value[e[i]] * 4 + B64Value[e[i + 1]] \div 16,
      (B64Value[e[i + 1]] % 16) * 16 + B64Value[e[i + 2]] \div 4,
      (B64Value[e[i + 2]] % 4) * 64 + B64Value[e[i + 3]]>>
    \o DecodeFrom(e, i + 4)

\* the text a base64 string decodes to
DecodeString(e) ==
  CHOOSE s \in {[i \in DOMAIN b |-> Ascii[b[i] - 31]] : b \in {DecodeFrom(e, 1)}} : TRUE

\* the text "Total: <total>, Payment: <payment>, Change: <change>"
SummaryText(total, payment, change) ==
  <<"T", "o", "t", "a", "l", ":", " ">> \o Fmt2(total)
  \o <<",", " ", "P", "a", "y", "m", "e", "n", "t", ":", " ">> \o Fmt2(payment)
  \o <<",", " ", "C", "h", "a", "n", "g", "e", ":", " ">> \o Fmt2(change)

\* the order of the round-trip example: 55000.00, 60000.00, 5000.00
ExampleOrder ==
  [NewOrder EXCEPT !.Total = 5500000, !.Payment = 6000000, !.Change = 500000]

ExampleText ==
  <<"T", "o", "t", "a", "l", ":", " ", "5", "5", "0", "0", "0", ".", "0",
    "0", ",", " ", "P", "a", "y", "m", "e", "n", "t", ":", " ", "6", "0",
    "0", "0", "0", ".", "0", "0", ",", " ", "C", "h", "a", "n", "g", "e",
    ":", " ", "5", "0", "0", "0", ".", "0", "0">>

\* orders to compare the session's order with: built by another route, some
\* with the same total, payment and change as a session order can have and
\* other items
References == {ClientOrder(i) : i \in 1..4} \cup {ExampleOrder}

Triple(o) == <<o.Total, o.Payment, o.Change>>

\* C14: the summary stored on the session's order is the base64 of "Total:
\* <total>, Payment: <payment>, Change: <change>" of that order's three
\* amounts and of nothing else; decoding it gives that text back; an order
\* with the same three amounts (whatever its items) has the same summary, and
\* an order with another summary text has another encoded string, which
\* decodes to another text
C14_SummaryReversible ==
  LET o == order[SessionOrder]
      text == SummaryText(o.Total, o.Payment, o.Change)
  IN  /\ OrderDetails(ExampleOrder) = ExampleText
      /\ DecodeString(EncodeToString(ExampleText)) = ExampleText
      /\ o.Encrypted # <<>> =>
           /\ o.Encrypted = EncodeToString(text)
           /\ DecodeString(o.Encrypted) = text
           /\ \A r \in References :
                LET e == EncodeToString(OrderDetails(r))
                IN  IF Triple(r) = Triple(o)
                      THEN e = o.Encrypted
                      ELSE /\ OrderDetails(r) # text
                           /\ e # o.Encrypted
                           /\ DecodeString(e) # DecodeString(o.Encrypted)

\* the session's order was summarized, and a reference order with other
\* items has its three amounts
C14_Witness ==
  /\ order[SessionOrder].Encrypted # <<>>
  /\ \E r \in References :
       /\ Triple(r) = Triple(order[SessionOrder])
       /\ r.Items # order[SessionOrder].Items

(***************************************************************************)
(* C15.  The stages of one worker, lines 115-120.                           *)
(***************************************************************************)
\* the orders that have been sent to p.results (received since, or not)
Pushed == Range(results) \cup Range(taken)

\* where an element first stands in a sequence
IndexIn(s, x) == CHOOSE i \in DOMAIN s : s[i] = x

\* one step keeps the stages of every order in sequence
StagesInSequence ==
  \A o \in Orders :
    /\ (o \notin Range(orders) /\ o \in Range(orders')) =>
         /\ order[o].Encrypted = <<>>
         /\ o \notin Pushed
         /\ order'[o].Encrypted = <<>>
         /\ o \notin Range(results')
    /\ order'[o].Encrypted # order[o].Encrypted =>
         /\ o \in Range(orders)
         /\ order[o].Encrypted = <<>>
         /\ o \notin Pushed
         /\ o \notin Range(results')
    /\ (o \notin Range(results) /\ o \in Range(results')) =>
         /\ o \in Range(orders)
         /\ order[o].Encrypted # <<>>
         /\ o \notin Range(taken)

\* C15: each order goes onto p.orders first, gets its summary next and is
\* sent to p.results last, each stage once; so in every state an order on
\* p.results (or received from it) has a summary and is on p.orders, and an
\* order with a summary is on p.orders
C15_StagesInOrder ==
  /\ [](\A o \in Orders :
          /\ o \in Pushed => (order[o].Encrypted # <<>> /\ o \in Range(orders))
          /\ order[o].Encrypted # <<>> => o \in Range(orders)
          /\ pc[o] = "encode" => (o \in Range(orders) /\ order[o].Encrypted = <<>>)
          /\ pc[o] = "push" => (order[o].Encrypted # <<>> /\ o \notin Pushed))
  /\ [][StagesInSequence]_vars

\* two orders submitted to the client's processor that came out on p.results
\* in the opposite order to the one they went onto p.orders in
C15_Witness ==
  \E a, b \in NewOrders :
    /\ a \in Range(results) /\ b \in Range(results)
    /\ IndexIn(orders, a) < IndexIn(orders, b)
    /\ IndexIn(results, b) < IndexIn(results, a)

(***************************************************************************)
(* C16.  Who touches an order's fields, and when.                           *)
(***************************************************************************)
\* main's next statement reads or writes the fields of order o: AddItem at
\* line 176, the display and the payment at lines 181-200, the prints at
\* lines 214-216
MainAccesses(o) ==
  \/ o = SessionOrder /\ mpc \in {"quantity", "pay"}
  \/ o = processedOrder /\ mpc = "print"

\* a step that changes the fields of an order is main's on an order whose
\* worker is not running, or the worker's own assignment of Encrypted
OneWriter ==
  \A o \in Orders :
    order'[o] # order[o] =>
      IF Live(o)
        THEN /\ pc[o] = "encode" /\ pc'[o] = "push"
             /\ mpc' = mpc
             /\ order'[o] = [order[o] EXCEPT !.Encrypted = order'[o].Encrypted]
        ELSE /\ pc[o] = "idle" /\ pc'[o] = "idle"
             /\ mpc \in {"quantity", "pay"}
             /\ order'[o].Encrypted = order[o].Encrypted

\* C16: main and a worker never access the fields of the same order at the
\* same time: whenever main is about to read or write an order's Total,
\* Payment, Change or Encrypted, that order has not been submitted yet, or
\* wg.Wait has returned and its worker has ended; while the worker is live
\* only the worker writes the order, and only its Encrypted
C16_NoConcurrentAccess ==
  /\ [](\A o \in Orders :
          MainAccesses(o) =>
            /\ ~Live(o)
            /\ pc[o] = "idle" \/ (pc[o] = "finished" /\ AfterWait))
  /\ [][OneWriter]_vars

\* main is about to print the fields of the order it received, whose worker
\* has summarized it and ended
C16_Witness ==
  /\ mpc = "print"
  /\ processedOrder = SessionOrder
  /\ pc[SessionOrder] = "finished"
  /\ order[SessionOrder].Encrypted # <<>>

(***************************************************************************)
(* C17.  main from line 195 to line 216.                                    *)
(***************************************************************************)
\* main's statements in program order, from the submission on
Step ==
  [s \in {"select", "quantity", "pay", "submit", "wait", "closeOrders",
          "closeResults", "take", "print", "recover", "farewell", "exited"} |->
     CASE s \in {"select", "quantity", "pay"} -> 0
       [] s = "submit" -> 1
       [] s = "wait" -> 2
       [] s = "closeOrders" -> 3
       [] s = "closeResults" -> 4
       [] s = "take" -> 5
       [] s = "print" -> 6
       [] s = "recover" -> 7
       [] s = "farewell" -> 8
       [] s = "exited" -> 9]

\* payment >= total and change = payment - total
Finalized(o) == o.Payment >= o.Total /\ o.Change = o.Payment - o.Total

\* how often the three result lines of order o are on the output
ResultPrints(o) ==
  Cardinality({i \in DOMAIN out :
    /\ i + 2 \in DOMAIN out
    /\ out[i] = Line("Uang yang dibayar: Rp", Fmt2(order[o].Payment))
    /\ out[i + 1] = Line("Kembalian: Rp", Fmt2(order[o].Change))
    /\ out[i + 2] = Line("Pesanan (encoded format): ", order[o].Encrypted)})

\* any result line on the output
AnyResultLine ==
  \E i \in DOMAIN out :
    out[i].line \in {"Uang yang dibayar: Rp", "Kembalian: Rp",
                     "Pesanan (encoded format): "}

\* one step of the session keeps the operations in order, one at a time and
\* each at most once: the submission of the finalized order, wg.Wait, the two
\* closes, the receive, the print
OperationsInSequence ==
  /\ (Step[mpc] >= 1 /\ mpc' # mpc) =>
       Step[mpc'] = Step[mpc] + 1 \/ (mpc = "print" /\ mpc' = "recover")
  /\ Step[mpc'] >= Step[mpc]
  /\ wg' > wg =>
       /\ mpc = "submit" /\ mpc' = "wait"
       /\ Finalized(order[SessionOrder])
       /\ wg = 0 /\ pc[SessionOrder] = "idle" /\ pc'[SessionOrder] = "select"
  /\ \A o \in Orders \ {SessionOrder} : pc'[o] = "idle"
  /\ (mpc = "submit" /\ mpc' # mpc) => wg' = wg + 1
  /\ (mpc = "wait" /\ mpc' # mpc) =>
       /\ wg = 0 /\ pc[SessionOrder] = "finished"
       /\ ~ordersClosed /\ ~resultsClosed
  /\ ordersClosed' # ordersClosed =>
       /\ mpc = "closeOrders" /\ ordersClosed' /\ ~resultsClosed'
  /\ resultsClosed' # resultsClosed =>
       /\ mpc = "closeResults" /\ resultsClosed' /\ ordersClosed
  /\ (mpc = "take" /\ mpc' # mpc) =>
       /\ ordersClosed /\ resultsClosed
       /\ processedOrder' = RecvValue
  /\ Len(results') < Len(results) => mpc = "take"
  /\ processedOrder' # processedOrder => mpc = "take"
  /\ (\E i \in DOMAIN out' : i > Len(out) /\ out'[i].line = "Uang yang dibayar: Rp") =>
       /\ mpc = "print"
       /\ processedOrder = SessionOrder

\* the session has ended after its order passed validation and payment and
\* was submitted
EndedAfterSubmit == mpc = "exited" /\ pc[SessionOrder] # "idle"

InvalidInput == "input hanya boleh berisi huruf dan spasi"
UnknownMenuItem == "Menu tidak tersedia"

Letters ==
  { "a", "b", "c", "d", "e", "f", "g", "h", "i", "j", "k", "l", "m",
    "n", "o", "p", "q", "r", "s", "t", "u", "v", "w", "x", "y", "z",
    "A", "B", "C", "D", "E", "F", "G", "H", "I", "J", "K", "L", "M",
    "N", "O", "P", "Q", "R", "S", "T", "U", "V", "W", "X", "Y", "Z" }

\* a character that is neither a letter nor a space
HasOtherChar(input) == \E i \in DOMAIN input : input[i] \notin Letters \cup {" "}

\* C18: at the selection prompt, whatever was ordered before: the line
\* "selesai" ends the selection with no check and no failure; a line that is
\* empty or holds a character other than letters and spaces fails with
\* InvalidInput and never with UnknownMenuItem; only a line of letters and
\* spaces is looked up on the menu, and fails with UnknownMenuItem when it is
\* not on it
C18_PatternBeforeMenu ==
  (mpc = "select" /\ fatal = "") =>
    \A line \in SelectionLines :
      LET input == TrimSpace(ToLower(line))
      IN  IF input = Selesai
            THEN /\ ENABLED (SelectLine(line) /\ mpc' = "pay" /\ panicVal' = "")
                 /\ ~ENABLED (SelectLine(line) /\ mpc' # "pay")
          ELSE IF input = <<>> \/ HasOtherChar(input)
            THEN /\ ENABLED (/\ SelectLine(line)
                             /\ panicVal' = InvalidInput
                             /\ mpc' = "recover")
                 /\ ~ENABLED (SelectLine(line) /\ panicVal' # InvalidInput)
          ELSE IF input \notin {NasiGoreng, AyamBakar}
            THEN /\ ENABLED (/\ SelectLine(line)
                             /\ panicVal' = UnknownMenuItem
                             /\ mpc' = "recover")
                 /\ ~ENABLED (SelectLine(line) /\ panicVal' # UnknownMenuItem)
          ELSE ~ENABLED (SelectLine(line) /\ panicVal' # "")

\* a session that ordered an item and then typed a line the pattern rejects
C18_Witness ==
  /\ mpc = "recover"
  /\ panicVal = InvalidInput
  /\ Len(added) = 1

(***************************************************************************)
(* C19.  p.orders is only ever sent to.                                     *)
(***************************************************************************)
\* the orders that have a summary
Summarized == {o \in Orders : order[o].Encrypted # <<>>}

\* one step never takes anything off p.orders, and with p.orders full no
\* worker gets past its select other than by the timeout
InboundOnlyGrows ==
  /\ Len(orders') >= Len(orders)
  /\ SubSeq(orders', 1, Len(orders)) = orders
  /\ Len(orders) = OrdersCap =>
       /\ orders' = orders
       /\ \A o \in Orders :
            pc[o] \in {"idle", "select"} =>
              /\ pc'[o] \in {"idle", "select", "exit"}
              /\ pc'[o] = "exit" => branch'[o] = "timeout"

\* C19: p.orders never shrinks; it never holds more than 10 orders, so at
\* most 10 orders ever get a summary; once it holds 10, a worker waiting at
\* its select can only time out, whatever has been received from p.results,
\* and every order that is not on p.orders and whose worker is past its
\* select was dropped by the timeout
C19_InboundNeverDrains ==
  /\ [][InboundOnlyGrows]_vars
  /\ [](/\ Len(orders) <= OrdersCap
        /\ Summarized \subseteq Range(orders)
        /\ Cardinality(Summarized) <= OrdersCap
        /\ Len(orders) = OrdersCap =>
             \A o \in Orders :
               pc[o] = "select" =>
                 /\ ~ENABLED WorkerSend(o)
                 /\ ENABLED WorkerTimeout(o)
        /\ \A o \in Orders :
             (pc[o] \in {"exit", "finished"} /\ o \notin Range(orders)) =>
               (branch[o] = "timeout" /\ o \notin Summarized))

\* p.orders holds 10 orders, some of them already received from p.results,
\* which has room again; one later submission was dropped and another waits
\* at its select
C19_Witness ==
  /\ Len(orders) = OrdersCap
  /\ taken # <<>>
  /\ Len(results) < ResultsCap
  /\ \E a, b \in NewOrders :
       /\ pc[a] = "finished" /\ branch[a] = "timeout"
       /\ pc[b] = "select"

(***************************************************************************)
(* C20.  The send to p.results at line 120, and wg.Wait at line 206.        *)
(***************************************************************************)
\* C20: the orders ever sent to p.results are at most those accepted by
\* p.orders, which are at most 10, the capacity of p.results: a worker at
\* its send to p.results always finds room, also when nothing was ever
\* received; every worker started ends, summarized or timed out, and wg.Wait
\* returns
C20_PushNeverBlocks ==
  /\ [](/\ Len(results) + Len(taken) + Cardinality({o \in Orders : pc[o] = "push"})
             <= Len(orders)
        /\ Len(orders) <= OrdersCap
        /\ OrdersCap <= ResultsCap
        /\ \A o \in Orders :
             pc[o] = "push" =>
               (Len(results) < ResultsCap /\ ENABLED WorkerPush(o)))
  /\ \A o \in NewOrders :
       (pc[o] = "select") ~> (pc[o] = "finished" /\ branch[o] \in {"send", "timeout"})
  /\ (mpc = "wait") ~> (mpc = "closeOrders" /\ wg = 0)

\* nothing was ever received, p.results is full, the last order on it came
\* from the client, another of the client's orders timed out, and wg.Wait
\* has returned
C20_Witness ==
  /\ taken = <<>>
  /\ Len(results) = ResultsCap
  /\ mpc = "closeOrders"
  /\ results[ResultsCap] \in NewOrders
  /\ \E o \in NewOrders : branch[o] = "timeout" /\ pc[o] = "finished"

====
